---- MODULE Spec2Model ----
(***************************************************************************)
(* Canal priority resolution (wrs.py): the priority-group classifier, the  *)
(* walk up the channel hierarchy to the nearest Distributary, the lookup   *)
(* of the current rotation period, and the script that chains them and     *)
(* prints one JSON payload.                                                *)
(*                                                                         *)
(* Python values are modelled as follows.  A str is a TLA+ string; None is *)
(* the string None below; an optional dict is a sequence of length 0 or 1; *)
(* a date is a day number, pandas' NaT is the number NaT; a table cell is  *)
(* a record [kind, val] with kind "num" (a number), "blank" (an empty      *)
(* cell, NaN) or "text" (non-numeric text).                                *)
(***************************************************************************)
EXTENDS Integers, Sequences, FiniteSets, TLC

VARIABLES argv, hierarchy_file, rotation_file, today, json_ok,
          pc, exc, user_canal, df_hierarchy, df_rotation,
          main_group, sub_group, current, steps, main_disty,
          availability, result, stdout

vars == <<argv, hierarchy_file, rotation_file, today, json_ok,
          pc, exc, user_canal, df_hierarchy, df_rotation,
          main_group, sub_group, current, steps, main_disty,
          availability, result, stdout>>

(***************************************************************************)
(* Bounds of the model.                                                    *)
(***************************************************************************)
\* Most rows of a hierarchy table handed to find_main_disty.
MaxHRows == 3
\* Most rows of a rotation table handed to the availability lookup.
MaxRotRows == 2
\* The iteration counter of the walk stops counting here (it saturates).
MaxSteps == 4

(***************************************************************************)
(* Python values.                                                          *)
(***************************************************************************)
None == "<None>"
Unset == "<unset>"
NaT == 0
BadDate == -1
DefaultRank == 999
Days == {1, 2}

\* bool(x) of a str or None.
Truthy(x) == x # None /\ x # ""

\* A text with one blank before and one after it.
Pad(s) == " " \o s \o " "

PRIORITY_GROUPS ==
  << <<"A", <<"A1", "A2">> >>,
     <<"B", <<"B1", "B2">> >>,
     <<"C", <<"C1", "C2">> >> >>

CANAL_PRIORITY_MAP ==
  << <<"A1", <<"Chamman Disty", "Nal Disty", "Tarinda Disty", "Channa Minor">> >>,
     <<"A2", <<"Upper Wah Faquiran Disty", "Lower Wah Faquiran Disty", "Kacha Disty">> >>,
     <<"B1", <<"Azim Disty", "Pattan Munara Minor", "Kandera Disty", "Nal Disty">> >>,
     <<"B2", <<"Adam Sohaba Disty", "Talla Disty", "Chamman Disty", "Sianwar Minor">> >>,
     <<"C1", <<"Naushera Link Disty", "Naushera Minor", "Bagh Minor", "Malu Minor">> >>,
     <<"C2", <<"Manthar Disty", "Lakhi Minor", "Sultan Disty">> >> >>

Range(s) == {s[i] : i \in DOMAIN s}

ListedCanals == UNION {Range(CANAL_PRIORITY_MAP[i][2]) : i \in DOMAIN CANAL_PRIORITY_MAP}

\* The channel names of the hierarchy tables of the model, in the order the
\* rows of a table are written, and a canal no table names.
HNames == {"Unknown Minor", "Chamman Disty", ""}
StrayCanal == "Stray Minor"
HTypes == {"D", "M"}
RotationColumns == {"Start Date", "End Date", "A", "A1"}

\* Every text the model pads: str.strip() undoes Pad on these.
Texts == ListedCanals \cup HNames \cup {StrayCanal} \cup HTypes \cup RotationColumns

\* Each padded text with the text it pads.
Unpadded == [s \in {Pad(c) : c \in Texts} |-> CHOOSE c \in Texts : s = Pad(c)]

\* str.strip(): the text without its leading and trailing blanks.
strip(s) == IF s \in DOMAIN Unpadded THEN Unpadded[s] ELSE s

(***************************************************************************)
(* find_priority_group                                                     *)
(***************************************************************************)
RECURSIVE EnclosingGroup(_, _)
\* The inner loop: the first main group, from index j on, listing sub_group.
EnclosingGroup(sg, j) ==
  IF j > Len(PRIORITY_GROUPS) THEN None
  ELSE IF sg \in Range(PRIORITY_GROUPS[j][2]) THEN PRIORITY_GROUPS[j][1]
  ELSE EnclosingGroup(sg, j + 1)

RECURSIVE ScanSubGroups(_, _)
\* The outer loop from index i on.  A sub-group no main group lists is passed
\* over, as the inner loop then ends without returning.
ScanSubGroups(canal_name, i) ==
  IF i > Len(CANAL_PRIORITY_MAP) THEN <<None, None>>
  ELSE IF canal_name \in Range(CANAL_PRIORITY_MAP[i][2])
          /\ EnclosingGroup(CANAL_PRIORITY_MAP[i][1], 1) # None
       THEN <<EnclosingGroup(CANAL_PRIORITY_MAP[i][1], 1), CANAL_PRIORITY_MAP[i][1]>>
       ELSE ScanSubGroups(canal_name, i + 1)

RECURSIVE ScanSubGroupsBackwards(_, _)
ScanSubGroupsBackwards(canal_name, i) ==
  IF i < 1 THEN <<None, None>>
  ELSE IF canal_name \in Range(CANAL_PRIORITY_MAP[i][2])
          /\ EnclosingGroup(CANAL_PRIORITY_MAP[i][1], 1) # None
       THEN <<EnclosingGroup(CANAL_PRIORITY_MAP[i][1], 1), CANAL_PRIORITY_MAP[i][1]>>
       ELSE ScanSubGroupsBackwards(canal_name, i - 1)

\* A faulty variant: the last sub-group listing the canal wins.
find_priority_group_last(canal_name) ==
  ScanSubGroupsBackwards(canal_name, Len(CANAL_PRIORITY_MAP))

find_priority_group(canal_name) == ScanSubGroups(canal_name, 1)

(***************************************************************************)
(* The hierarchy table and find_main_disty                                 *)
(***************************************************************************)
HierColumns == {"CHANNEL_NA", "PARENT_CHA", "CHANNEL_TY"}

\* The index of the last row of the table whose stripped CHANNEL_NA is k:
\* dict(zip(keys, values)) keeps the last value of a repeated key.
LastRow(df, k) ==
  CHOOSE i \in DOMAIN df.rows :
    /\ strip(df.rows[i].CHANNEL_NA) = k
    /\ \A j \in DOMAIN df.rows : strip(df.rows[j].CHANNEL_NA) = k => j <= i

ChannelKeys(df) == {strip(df.rows[i].CHANNEL_NA) : i \in DOMAIN df.rows}

\* A faulty variant: the parent names are not stripped.
parent_map_unstripped(df) ==
  [k \in ChannelKeys(df) |-> df.rows[LastRow(df, k)].PARENT_CHA]

parent_map(df) ==
  [k \in ChannelKeys(df) |-> strip(df.rows[LastRow(df, k)].PARENT_CHA)]

channel_type_map(df) ==
  [k \in ChannelKeys(df) |-> strip(df.rows[LastRow(df, k)].CHANNEL_TY)]

Returned(v) == [returned |-> TRUE, value |-> v]
Continue(v) == [returned |-> FALSE, value |-> v]

\* A faulty variant: the walk gives up when the grandparent is the node it stands on.
WalkIterationGuarded(cur, pm, tm) ==
  IF cur \notin DOMAIN pm THEN Returned(None)
  ELSE IF pm[cur] \in DOMAIN tm /\ tm[pm[cur]] = "D" THEN Returned(pm[cur])
  ELSE IF pm[cur] = cur \/ pm[cur] \notin DOMAIN pm THEN Returned(None)
  ELSE IF pm[pm[cur]] = cur THEN Returned(None)
  ELSE Continue(pm[cur])

\* A faulty variant: the walk never advances to the parent.
WalkIterationStuck(cur, pm, tm) ==
  IF cur \notin DOMAIN pm THEN Returned(None)
  ELSE IF pm[cur] \in DOMAIN tm /\ tm[pm[cur]] = "D" THEN Returned(pm[cur])
  ELSE IF pm[cur] = cur \/ pm[cur] \notin DOMAIN pm THEN Returned(None)
  ELSE Continue(cur)

\* One test of the while condition and, when it holds, one pass of the loop
\* body, standing on cur: the value returned, or the node to stand on next.
WalkIteration(cur, pm, tm) ==
  IF cur \notin DOMAIN pm THEN Returned(None)
  ELSE IF pm[cur] \in DOMAIN tm /\ tm[pm[cur]] = "D" THEN Returned(pm[cur])
  ELSE IF pm[cur] = cur \/ pm[cur] \notin DOMAIN pm THEN Returned(None)
  ELSE Continue(pm[cur])

Min(a, b) == IF a < b THEN a ELSE b

(***************************************************************************)
(* The rotation table and get_current_week_water_availability              *)
(***************************************************************************)
Num(n) == [kind |-> "num", val |-> n]
Junk(k) == [kind |-> k, val |-> 0]
NaN == Junk("blank")

\* pd.to_numeric(x, errors="coerce") of a cell.
to_numeric(cell) == IF cell.kind = "num" THEN cell ELSE NaN

notna(x) == x.kind = "num"

\* A faulty variant: a cell that is no number is ranked 0.
rank_or_default_zero(cell) ==
  IF notna(to_numeric(cell)) THEN to_numeric(cell).val ELSE 0

\* Lines 88-92: the numeric rank of a cell, 999 when it has none.
rank_or_default(cell) ==
  IF notna(to_numeric(cell)) THEN to_numeric(cell).val ELSE DefaultRank

\* date.strftime("%d-%m-%Y")
strftime(d) == <<"%d-%m-%Y", d>>

AvailabilityOf(row, mg, sg) ==
  ("Start Date" :> strftime(row["Start Date"]))
    @@ ("End Date" :> strftime(row["End Date"]))
    @@ ("Group Priority" :> rank_or_default(row[mg]))
    @@ ("Sub-Group Priority" :> rank_or_default(row[sg]))

\* Lines 87-98: the row has both columns, both dates, and today within them.
RowMatches(row, mg, sg, day) ==
  /\ sg \in DOMAIN row /\ mg \in DOMAIN row
  /\ row["Start Date"] # NaT /\ row["End Date"] # NaT
  /\ row["Start Date"] <= day /\ day <= row["End Date"]

RECURSIVE ScanRows(_, _, _, _, _)
ScanRows(mg, sg, rows, day, i) ==
  IF i > Len(rows) THEN <<>>
  ELSE IF RowMatches(rows[i], mg, sg, day) THEN <<AvailabilityOf(rows[i], mg, sg)>>
  ELSE ScanRows(mg, sg, rows, day, i + 1)

RECURSIVE ScanRowsKeepLast(_, _, _, _, _, _)
ScanRowsKeepLast(mg, sg, rows, day, i, found) ==
  IF i > Len(rows) THEN found
  ELSE IF RowMatches(rows[i], mg, sg, day)
       THEN ScanRowsKeepLast(mg, sg, rows, day, i + 1, <<AvailabilityOf(rows[i], mg, sg)>>)
       ELSE ScanRowsKeepLast(mg, sg, rows, day, i + 1, found)

\* A faulty variant: the last matching row wins.
get_current_week_water_availability_last(mg, sg, df, day) ==
  ScanRowsKeepLast(mg, sg, df.rows, day, 1, <<>>)

\* The optional dict returned: <<>> is None.  day is datetime.today().date().
get_current_week_water_availability(mg, sg, df, day) ==
  ScanRows(mg, sg, df.rows, day, 1)

\* pd.to_datetime(..., errors="coerce"): a date that does not parse is NaT.
to_datetime(d) == IF d \in Days THEN d ELSE NaT

\* json.dumps(obj)
json_dumps(obj) == <<"json", obj>>

(***************************************************************************)
(* The inputs of the model                                                 *)
(***************************************************************************)
PadIf(s, p) == IF p THEN Pad(s) ELSE s

NoFile == [exists |-> FALSE, columns |-> {}, rows |-> <<>>]

SeqsUpTo(S, n) == UNION {[1..k -> S] : k \in 0..n}

NameOrd(n) ==
  CASE n = "Unknown Minor" -> 1
    [] n = "Chamman Disty" -> 2
    [] OTHER -> 3

HRowSet(pad) ==
  {[CHANNEL_NA |-> PadIf(n, pad), PARENT_CHA |-> PadIf(p, pad), CHANNEL_TY |-> PadIf(t, pad)] :
     n \in HNames, p \in HNames, t \in HTypes}

\* The rows of a table are written in the order of their channel names: the
\* two dicts built from a table do not depend on the order of rows with
\* different names, and rows with the same name come in every order.
InNameOrder(rows) ==
  \A i \in 1..(Len(rows) - 1) :
    NameOrd(strip(rows[i].CHANNEL_NA)) <= NameOrd(strip(rows[i + 1].CHANNEL_NA))

\* The hierarchy tables of at most n rows, all cells padded or none.
HierTables(n, pad) ==
  {[exists |-> TRUE, columns |-> HierColumns, rows |-> r] :
     r \in {q \in SeqsUpTo(HRowSet(pad), n) : InNameOrder(q)}}

\* The tables handed to find_main_disty.
PlainTables == HierTables(MaxHRows, FALSE)
PaddedTables == HierTables(MaxHRows, TRUE)

\* A hierarchy file without the PARENT_CHA column.
NoParentColumn == [exists |-> TRUE, columns |-> {"CHANNEL_NA", "CHANNEL_TY"}, rows |-> <<>>]

UniqueNames(df) ==
  \A i, j \in DOMAIN df.rows :
    df.rows[i].CHANNEL_NA = df.rows[j].CHANNEL_NA => i = j

DateColumns == {"Start Date", "End Date"}

\* The cells a rotation row may hold in column c: the rank of the column, or
\* a cell that is no number.
CellChoices(c, junk) == {Num(IF c = "A" THEN 1 ELSE 2), Junk(junk)}

CellFns(cols, junk) ==
  {f \in [cols -> {Num(1), Num(2), Junk(junk)}] : \A c \in cols : f[c] \in CellChoices(c, junk)}

RotRows(cols, junk, dates) ==
  {("Start Date" :> s) @@ ("End Date" :> e) @@ f :
     s \in dates, e \in dates, f \in CellFns(cols, junk)}

\* The columns a rotation frame has besides the dates, and what its cells
\* that are no numbers hold.
ColumnSets == {{}, {"A"}, {"A", "A1"}}
JunkKinds == {"blank", "text"}

\* The rotation frames load_csv_data can return, of at most n rows.
RotTables(n, cols, junk) ==
  {[exists |-> TRUE, columns |-> cols \cup DateColumns, rows |-> r] :
     r \in SeqsUpTo(RotRows(cols, junk, Days \cup {NaT}), n)}

\* The file a frame is loaded from: its columns padded or not, a date that
\* does not parse where the frame has NaT.
RotFileOf(t, pad) ==
  [exists |-> TRUE,
   columns |-> {PadIf(c, pad) : c \in t.columns},
   rows |-> [i \in DOMAIN t.rows |->
               [rc \in {PadIf(c, pad) : c \in t.columns} |->
                  IF strip(rc) \in DateColumns /\ t.rows[i][strip(rc)] = NaT
                  THEN BadDate ELSE t.rows[i][strip(rc)]]]]

\* The rotation files of the whole script: no rows or one row that starts on
\* day 1 and holds both ranks, and a file without the date columns.
ScriptRotFiles ==
  {NoFile, [exists |-> TRUE, columns |-> {"A", "A1"}, rows |-> <<>>]}
  \cup {RotFileOf(t, pad) :
          t \in {u \in RotTables(1, {"A", "A1"}, "blank") :
                   \A i \in DOMAIN u.rows :
                     /\ u.rows[i]["Start Date"] = 1
                     /\ u.rows[i]["A"].kind = "num" /\ u.rows[i]["A1"].kind = "num"},
          pad \in BOOLEAN}

ScriptHierFiles ==
  {NoFile, NoParentColumn} \cup {t \in PlainTables : UniqueNames(t)}

ArgvOf(c) == <<"wrs.py", "hierarchy.csv", "rotation.csv", c>>

NoResult == [unset |-> TRUE]

(***************************************************************************)
(* The results of the script (lines 125-172)                               *)
(***************************************************************************)
DirectResult(canal, mg, sg, av) ==
  IF av # <<>>
  THEN [canal |-> canal, priority_group |-> mg, sub_group |-> sg, availability |-> av[1]]
  ELSE [canal |-> canal,
        message |-> "Canal is in the plan but no availability data for this week."]

\* A faulty variant: the inherited result does not name the parent.
InheritedResultUntagged(canal, disty, mg, sg, av) ==
  IF av # <<>>
  THEN [canal |-> canal, priority_group |-> mg, sub_group |-> sg, availability |-> av[1],
        message |-> "Canal is not directly in the plan, but its parent is."]
  ELSE [canal |-> canal, parent_canal |-> disty,
        message |-> "No availability data found for the parent distributary in the current week."]

InheritedResult(canal, disty, mg, sg, av) ==
  IF av # <<>>
  THEN [canal |-> canal, parent_canal |-> disty, priority_group |-> mg, sub_group |-> sg,
        availability |-> av[1],
        message |-> "Canal is not directly in the plan, but its parent is."]
  ELSE [canal |-> canal, parent_canal |-> disty,
        message |-> "No availability data found for the parent distributary in the current week."]

ParentNotInPlan(canal, disty) ==
  [canal |-> canal, parent_canal |-> disty,
   message |-> "Canal and its parent are not in the rotational plan."]

NoCanalFound(canal) ==
  [canal |-> canal, message |-> "No Canal found in the Rabi Season."]

(***************************************************************************)
(* The script, one action per step (lines 107-178)                         *)
(***************************************************************************)
\* Lines 110-112: sys.argv[3] raises IndexError when the canal is missing.
ReadArgs ==
  /\ pc = "start"
  /\ IF Len(argv) < 4
     THEN /\ exc' = "IndexError"
          /\ pc' = "except"
          /\ UNCHANGED user_canal
     ELSE /\ user_canal' = strip(argv[4])
          /\ pc' = "load"
          /\ UNCHANGED exc
  /\ UNCHANGED <<argv, hierarchy_file, rotation_file, today, json_ok, df_hierarchy,
                 df_rotation, main_group, sub_group, current, steps, main_disty,
                 availability, result, stdout>>

\* The frame read from the rotation file: column names stripped (line 44),
\* both date columns parsed with errors="coerce" (lines 47-56).
LoadedRotation(file) ==
  [exists |-> TRUE,
   columns |-> {strip(c) : c \in file.columns},
   rows |-> [i \in DOMAIN file.rows |->
               [c \in {strip(rc) : rc \in file.columns} |->
                  LET rc == CHOOSE x \in file.columns : strip(x) = c
                  IN IF c \in DateColumns THEN to_datetime(file.rows[i][rc])
                     ELSE file.rows[i][rc]]]]

\* Line 115, load_csv_data (lines 35-58).
LoadCsv ==
  /\ pc = "load"
  /\ IF ~hierarchy_file.exists \/ ~rotation_file.exists
     THEN /\ exc' = "FileNotFoundError"
          /\ pc' = "except"
          /\ UNCHANGED <<df_hierarchy, df_rotation>>
     ELSE IF ~(DateColumns \subseteq {strip(c) : c \in rotation_file.columns})
     THEN /\ exc' = "KeyError"
          /\ pc' = "except"
          /\ UNCHANGED <<df_hierarchy, df_rotation>>
     ELSE /\ df_hierarchy' = hierarchy_file
          /\ df_rotation' = LoadedRotation(rotation_file)
          /\ pc' = "classify"
          /\ UNCHANGED exc
  /\ UNCHANGED <<argv, hierarchy_file, rotation_file, today, json_ok, user_canal,
                 main_group, sub_group, current, steps, main_disty, availability,
                 result, stdout>>

\* Lines 118-120 and 137.
Classify ==
  /\ pc = "classify"
  /\ main_group' = find_priority_group(user_canal)[1]
  /\ sub_group' = find_priority_group(user_canal)[2]
  /\ pc' = IF Truthy(main_group') /\ Truthy(sub_group') THEN "direct" ELSE "find_main_disty"
  /\ UNCHANGED <<argv, hierarchy_file, rotation_file, today, json_ok, exc, user_canal,
                 df_hierarchy, df_rotation, current, steps, main_disty, availability,
                 result, stdout>>

\* Lines 122-135.
DirectHit ==
  /\ pc = "direct"
  /\ availability' = get_current_week_water_availability(main_group, sub_group, df_rotation, today)
  /\ result' = DirectResult(user_canal, main_group, sub_group, availability')
  /\ pc' = "print"
  /\ UNCHANGED <<argv, hierarchy_file, rotation_file, today, json_ok, exc, user_canal,
                 df_hierarchy, df_rotation, main_group, sub_group, current, steps,
                 main_disty, availability, stdout>>

\* find_main_disty, lines 65-68: df["PARENT_CHA"] raises KeyError when the
\* table has no such column.
WalkBegin ==
  /\ pc = "find_main_disty"
  /\ IF HierColumns \subseteq df_hierarchy.columns
     THEN /\ current' = strip(user_canal)
          /\ pc' = "walk"
          /\ UNCHANGED exc
     ELSE /\ exc' = "KeyError"
          /\ pc' = "except"
          /\ UNCHANGED current
  /\ UNCHANGED <<argv, hierarchy_file, rotation_file, today, json_ok, user_canal,
                 df_hierarchy, df_rotation, main_group, sub_group, steps, main_disty,
                 availability, result, stdout>>

\* find_main_disty, lines 69-77: one test of the loop condition and one pass
\* of the body.  steps counts the passes of the body.
WalkStep ==
  /\ pc = "walk"
  /\ LET pm == parent_map(df_hierarchy)
         it == WalkIteration(current, pm, channel_type_map(df_hierarchy))
     IN /\ steps' = IF current \in DOMAIN pm THEN Min(steps + 1, MaxSteps) ELSE steps
        /\ IF it.returned
           THEN /\ main_disty' = it.value
                /\ pc' = "walked"
                /\ UNCHANGED current
           ELSE /\ current' = it.value
                /\ pc' = "walk"
                /\ UNCHANGED main_disty
  /\ UNCHANGED <<argv, hierarchy_file, rotation_file, today, json_ok, exc, user_canal,
                 df_hierarchy, df_rotation, main_group, sub_group, availability,
                 result, stdout>>

\* Lines 141-172, after find_main_disty has returned.
Inherit ==
  /\ pc = "walked"
  /\ IF Truthy(main_disty)
     THEN /\ main_group' = find_priority_group(main_disty)[1]
          /\ sub_group' = find_priority_group(main_disty)[2]
          /\ IF Truthy(main_group') /\ Truthy(sub_group')
             THEN /\ availability' =
                       get_current_week_water_availability(main_group', sub_group',
                                                           df_rotation, today)
                  /\ result' = InheritedResult(user_canal, main_disty, main_group',
                                               sub_group', availability')
             ELSE /\ result' = ParentNotInPlan(user_canal, main_disty)
                  /\ UNCHANGED availability
     ELSE /\ result' = NoCanalFound(user_canal)
          /\ UNCHANGED <<main_group, sub_group, availability>>
  /\ pc' = "print"
  /\ UNCHANGED <<argv, hierarchy_file, rotation_file, today, json_ok, exc, user_canal,
                 df_hierarchy, df_rotation, current, steps, main_disty, stdout>>

\* json.dumps raises TypeError on a rank it cannot encode; the other values
\* of a result are str.
CanDump(obj) == json_ok \/ "availability" \notin DOMAIN obj

\* A faulty variant: the result is written out before its encoding fails.
PrintResultEarly ==
  /\ pc = "print"
  /\ stdout' = Append(stdout, json_dumps(result))
  /\ IF CanDump(result)
     THEN pc' = "done" /\ UNCHANGED exc
     ELSE exc' = "TypeError" /\ pc' = "except"
  /\ UNCHANGED <<argv, hierarchy_file, rotation_file, today, json_ok, user_canal,
                 df_hierarchy, df_rotation, main_group, sub_group, current, steps,
                 main_disty, availability, result>>

\* Line 175: the argument of print is evaluated before anything is written.
PrintResult ==
  /\ pc = "print"
  /\ IF CanDump(result)
     THEN /\ stdout' = Append(stdout, json_dumps(result))
          /\ pc' = "done"
          /\ UNCHANGED exc
     ELSE /\ exc' = "TypeError"
          /\ pc' = "except"
          /\ UNCHANGED stdout
  /\ UNCHANGED <<argv, hierarchy_file, rotation_file, today, json_ok, user_canal,
                 df_hierarchy, df_rotation, main_group, sub_group, current, steps,
                 main_disty, availability, result>>

\* Lines 177-178.
Except ==
  /\ pc = "except"
  /\ stdout' = Append(stdout, json_dumps([error |-> exc]))
  /\ pc' = "done"
  /\ UNCHANGED <<argv, hierarchy_file, rotation_file, today, json_ok, exc, user_canal,
                 df_hierarchy, df_rotation, main_group, sub_group, current, steps,
                 main_disty, availability, result>>

\* A call of get_current_week_water_availability on its own.
Lookup ==
  /\ pc = "lookup"
  /\ availability' = get_current_week_water_availability(main_group, sub_group, df_rotation, today)
  /\ pc' = "looked"
  /\ UNCHANGED <<argv, hierarchy_file, rotation_file, today, json_ok, exc, user_canal,
                 df_hierarchy, df_rotation, main_group, sub_group, current, steps,
                 main_disty, result, stdout>>

(***************************************************************************)
(* Specifications                                                          *)
(***************************************************************************)
\* The state of the names the script has not bound yet.
Unbound ==
  /\ exc = None
  /\ main_group = None /\ sub_group = None
  /\ current = Unset /\ steps = 0 /\ main_disty = Unset
  /\ availability = <<>> /\ result = NoResult /\ stdout = <<>>

\* One run of the script.
Init ==
  /\ argv \in {<<"wrs.py", "hierarchy.csv", "rotation.csv">>}
              \cup {ArgvOf(PadIf(c, p)) : c \in {"Nal Disty", "Unknown Minor", ""}, p \in BOOLEAN}
  /\ hierarchy_file \in ScriptHierFiles
  /\ rotation_file \in ScriptRotFiles
  /\ today \in Days
  /\ json_ok \in BOOLEAN
  /\ pc = "start"
  /\ user_canal = Unset
  /\ df_hierarchy = NoFile /\ df_rotation = NoFile
  /\ Unbound

Next ==
  \/ ReadArgs
  \/ LoadCsv
  \/ Classify
  \/ DirectHit
  \/ WalkBegin
  \/ WalkStep
  \/ Inherit
  \/ PrintResult
  \/ Except

Spec == Init /\ [][Next]_vars

\* The interpreter always takes the next step of the script.
FairSpec == Init /\ [][Next]_vars /\ WF_vars(Next)

\* The arguments and the classifier alone, over every listed canal.
InitClass ==
  /\ argv \in {ArgvOf(PadIf(c, p)) : c \in ListedCanals \cup HNames \cup {StrayCanal}, p \in BOOLEAN}
  /\ hierarchy_file = [exists |-> TRUE, columns |-> HierColumns, rows |-> <<>>]
  /\ rotation_file = [exists |-> TRUE, columns |-> RotationColumns, rows |-> <<>>]
  /\ today = 1
  /\ json_ok = TRUE
  /\ pc = "start"
  /\ user_canal = Unset
  /\ df_hierarchy = NoFile /\ df_rotation = NoFile
  /\ Unbound

NextClass == ReadArgs \/ LoadCsv \/ Classify

SpecClass == InitClass /\ [][NextClass]_vars

\* find_main_disty alone, over every table and canal name.
InitWalk ==
  /\ argv = <<>>
  /\ hierarchy_file = NoFile /\ rotation_file = NoFile
  /\ today = 1
  /\ json_ok = TRUE
  /\ pc = "find_main_disty"
  /\ \/ df_hierarchy \in PlainTables
     \/ df_hierarchy \in PaddedTables
     \/ df_hierarchy = NoParentColumn
  /\ user_canal \in {PadIf(c, p) : c \in HNames \cup {StrayCanal}, p \in BOOLEAN}
  /\ df_rotation = NoFile
  /\ Unbound

NextWalk == WalkBegin \/ WalkStep

SpecWalk == InitWalk /\ [][NextWalk]_vars

\* get_current_week_water_availability alone, over every table, day and pair.
InitAvail ==
  /\ argv = <<>>
  /\ hierarchy_file = NoFile /\ rotation_file = NoFile
  /\ today \in Days
  /\ json_ok = TRUE
  /\ pc = "lookup"
  /\ user_canal = Unset
  /\ df_hierarchy = NoFile
  /\ \E cols \in ColumnSets, junk \in JunkKinds :
       df_rotation \in RotTables(MaxRotRows, cols, junk)
  /\ exc = None
  /\ \E g \in {<<"A", "A1">>, <<"B", "B2">>} : main_group = g[1] /\ sub_group = g[2]
  /\ current = Unset /\ steps = 0 /\ main_disty = Unset
  /\ availability = <<>> /\ result = NoResult /\ stdout = <<>>

NextAvail == Lookup

SpecAvail == InitAvail /\ [][NextAvail]_vars

(***************************************************************************)
(* What the claims speak of, stated apart from the operators above         *)
(***************************************************************************)
\* The indices of the sub-groups of the static mapping that list canal c.
ListingSubGroups(c) ==
  {i \in DOMAIN CANAL_PRIORITY_MAP : \E k \in DOMAIN CANAL_PRIORITY_MAP[i][2] :
                                       CANAL_PRIORITY_MAP[i][2][k] = c}

\* The classification of c: the first sub-group listing it and the main
\* group that holds that sub-group.
Classification(c) ==
  IF ListingSubGroups(c) = {} THEN <<None, None>>
  ELSE LET i == CHOOSE x \in ListingSubGroups(c) : \A y \in ListingSubGroups(c) : x <= y
           sub == CANAL_PRIORITY_MAP[i][1]
           j == CHOOSE x \in DOMAIN PRIORITY_GROUPS :
                  \E k \in DOMAIN PRIORITY_GROUPS[x][2] : PRIORITY_GROUPS[x][2][k] = sub
       IN <<PRIORITY_GROUPS[j][1], sub>>

Classified(c) == Classification(c) # <<None, None>>

\* The hierarchy read row by row from the table held in df_hierarchy: the
\* record named k is the last row whose stripped CHANNEL_NA is k.
RowOf(k) ==
  df_hierarchy.rows[CHOOSE i \in DOMAIN df_hierarchy.rows :
                      /\ strip(df_hierarchy.rows[i].CHANNEL_NA) = k
                      /\ \A j \in (i + 1)..Len(df_hierarchy.rows) :
                           strip(df_hierarchy.rows[j].CHANNEL_NA) # k]

Records == {strip(df_hierarchy.rows[i].CHANNEL_NA) : i \in DOMAIN df_hierarchy.rows}
\* The parent of every record, and the records of type Distributary.
Parents == [k \in Records |-> strip(RowOf(k).PARENT_CHA)]
Disties == {k \in Records : strip(RowOf(k).CHANNEL_TY) = "D"}
Canal == strip(user_canal)

RECURSIVE Ancestor(_, _, _)
\* The node n parent links above k in P; a node without a record is its own end.
Ancestor(P, k, n) ==
  IF n = 0 \/ k \notin DOMAIN P THEN k ELSE Ancestor(P, P[k], n - 1)

\* n parent links can be followed from k: the n nodes below the last have records.
Followable(P, k, n) == \A m \in 0..(n - 1) : Ancestor(P, k, m) \in DOMAIN P

\* The parent chain of k ends: at a node without a record or at a self-reference.
ChainEnds(P, k) ==
  LET e == Ancestor(P, k, Cardinality(DOMAIN P))
  IN e \notin DOMAIN P \/ P[e] = e

\* A well-formed hierarchy: every parent chain ends (no cycle but a self-reference).
WellFormed(P) == \A k \in DOMAIN P : ChainEnds(P, k)

RECURSIVE Links(_, _, _)
\* The parent links on the chain of k in a well-formed hierarchy, a
\* self-reference counted once.
Links(P, k, fuel) ==
  IF k \notin DOMAIN P \/ fuel = 0 THEN 0
  ELSE IF P[k] = k THEN 1
  ELSE 1 + Links(P, P[k], fuel - 1)

LinksFrom(P, k) == Links(P, k, Cardinality(DOMAIN P))

\* The depth of the hierarchy: its longest parent chain.
Depth(P) ==
  IF DOMAIN P = {} THEN 0
  ELSE CHOOSE d \in {LinksFrom(P, k) : k \in DOMAIN P} : \A k \in DOMAIN P : LinksFrom(P, k) <= d

\* The numbers n >= 1 such that the n-th ancestor of c is a Distributary
\* other than c itself.
DistyLevels(P, D, c) ==
  {n \in 1..(Cardinality(DOMAIN P) + 1) :
     Followable(P, c, n) /\ Ancestor(P, c, n) \in D /\ Ancestor(P, c, n) # c}

\* The nearest Distributary ancestor of c, None when there is none.
NearestDisty(P, D, c) ==
  IF DistyLevels(P, D, c) = {} THEN None
  ELSE Ancestor(P, c, CHOOSE n \in DistyLevels(P, D, c) : \A m \in DistyLevels(P, D, c) : n <= m)

\* The chain of c runs into a cycle of two or more records and meets no
\* Distributary: every node on it has a record, a parent other than itself,
\* and a parent that is no Distributary.
RunsIntoCycle(P, D, c) ==
  \A n \in 0..Cardinality(DOMAIN P) :
    LET x == Ancestor(P, c, n)
    IN x \in DOMAIN P /\ P[x] # x /\ P[x] \notin D

\* The rows of the rotation frame that qualify for the pair on day today.
Qualifying ==
  {i \in DOMAIN df_rotation.rows :
     LET row == df_rotation.rows[i]
     IN /\ main_group \in DOMAIN row /\ sub_group \in DOMAIN row
        /\ row["Start Date"] \in Days /\ row["End Date"] \in Days
        /\ row["Start Date"] <= today /\ today <= row["End Date"]}

RankIn(cell) == IF cell.kind = "num" THEN cell.val ELSE 999

\* The shape of an emitted result.
Has(obj, f) == f \in DOMAIN obj
OutcomeOf(obj) ==
  IF ~Has(obj, "parent_canal")
     /\ (Has(obj, "availability")
         \/ (Has(obj, "message")
             /\ obj.message = "Canal is in the plan but no availability data for this week."))
  THEN "direct"
  ELSE IF Has(obj, "parent_canal")
          /\ (Has(obj, "availability")
              \/ obj.message = "No availability data found for the parent distributary in the current week.")
  THEN "indirect"
  ELSE "miss"

Walked == pc = "walked"
Emitted == pc = "done" /\ exc = None

(***************************************************************************)
(* The claims                                                              *)
(***************************************************************************)
\* C1 (as claimed): whenever a classification is resolved, for the canal or
\* for its Distributary ancestor, and the availability lookup returns None,
\* the result carries priority_group and sub_group with a message and no
\* availability.
C1_NoDataKeepsClassification ==
  (/\ pc \in {"print", "done"} /\ exc = None
   /\ Truthy(main_group) /\ Truthy(sub_group) /\ availability = <<>>)
  => /\ Has(result, "priority_group") /\ Has(result, "sub_group")
     /\ result.priority_group = main_group /\ result.sub_group = sub_group
     /\ Has(result, "message")
     /\ ~Has(result, "availability")

\* C2 (as claimed): find_main_disty returns the nearest Distributary met by
\* following parent links from the canal, never the canal itself, and None
\* exactly when there is no such ancestor.
C2_ReturnsNearestDisty == Walked => main_disty = NearestDisty(Parents, Disties, Canal)

\* C3 (as claimed): when the walk stands on a record whose parent is itself
\* or has no record, find_main_disty returns None.
C3_SelfOrMissingParentIsNone ==
  LET P == Parents
  IN (/\ Walked /\ current \in DOMAIN P
      /\ (P[current] = current \/ P[current] \notin DOMAIN P))
     => main_disty = None

\* C4: for a canal without a direct sub-group and a well-formed acyclic
\* hierarchy, the passes of the loop made so far plus the parent links still
\* ahead never exceed the parent links of the canal's chain, which never
\* exceed the depth of the hierarchy; the walk ends at a Distributary or
\* with None.
C4_WalkBoundedByDepth ==
  LET P == Parents
  IN (pc \in {"walk", "walked"} /\ ~Classified(Canal) /\ WellFormed(P))
     => /\ steps + (IF pc = "walk" THEN LinksFrom(P, current) ELSE 0) <= LinksFrom(P, Canal)
        /\ LinksFrom(P, Canal) <= Depth(P)
        /\ steps <= Depth(P)
        /\ Walked => (main_disty = None \/ main_disty \in Disties)

C4_Witness ==
  /\ Walked /\ WellFormed(Parents) /\ ~Classified(Canal)
  /\ steps = 2 /\ Depth(Parents) >= 2
  /\ main_disty \in Disties

\* C5: find_priority_group returns the first sub-group of the static mapping
\* that lists the canal, with the main group holding it, and (None, None)
\* when no sub-group lists the canal.
C5_FirstListingSubGroup ==
  pc \in {"direct", "find_main_disty"}
  => /\ <<main_group, sub_group>> = Classification(user_canal)
     /\ (pc = "direct") = (ListingSubGroups(user_canal) # {})
     /\ ListingSubGroups(user_canal) # {}
          => /\ \E i \in ListingSubGroups(user_canal) :
                  /\ sub_group = CANAL_PRIORITY_MAP[i][1]
                  /\ \A j \in ListingSubGroups(user_canal) : i <= j
             /\ \E j \in DOMAIN PRIORITY_GROUPS :
                  /\ main_group = PRIORITY_GROUPS[j][1]
                  /\ sub_group \in Range(PRIORITY_GROUPS[j][2])

C5_Witness ==
  /\ pc = "direct"
  /\ user_canal = "Chamman Disty"
  /\ Cardinality(ListingSubGroups(user_canal)) = 2
  /\ main_group = "A" /\ sub_group = "A1"

\* C6: the availability lookup returns the first row, in source order, whose
\* closed interval holds today and which has both columns, with the ranks of
\* that row and 999 for a cell that is no number; it returns None when no
\* row qualifies, a row with an unparsable date included.
C6_FirstQualifyingRow ==
  pc = "looked"
  => IF Qualifying = {} THEN availability = <<>>
     ELSE LET i == CHOOSE x \in Qualifying : \A y \in Qualifying : x <= y
              row == df_rotation.rows[i]
          IN /\ Len(availability) = 1
             /\ DOMAIN availability[1] =
                  {"Start Date", "End Date", "Group Priority", "Sub-Group Priority"}
             /\ availability[1]["Start Date"] = strftime(row["Start Date"])
             /\ availability[1]["End Date"] = strftime(row["End Date"])
             /\ availability[1]["Group Priority"] = RankIn(row[main_group])
             /\ availability[1]["Sub-Group Priority"] = RankIn(row[sub_group])

C6_Witness ==
  /\ pc = "looked"
  /\ Cardinality(Qualifying) >= 2
  /\ df_rotation.rows[1] # df_rotation.rows[2]
  /\ availability # <<>>
  /\ availability[1]["Group Priority"] = 999
  /\ availability[1]["Sub-Group Priority"] = 2

\* C7 (as claimed): every run of the script emits exactly one payload.
C7_AlwaysOnePayload == <>(Len(stdout) = 1)

\* C7 (amended): a run emits nothing before it ends and exactly one payload
\* when it ends; after a failure of any step the payload is the error
\* payload with the description, otherwise it is the result; once an
\* exception is raised the run is in its handler or over.
C7_OnePayloadWhenDone ==
  /\ Len(stdout) <= 1
  /\ pc # "done" => stdout = <<>>
  /\ pc = "done" => Len(stdout) = 1
  /\ exc # None => pc \in {"except", "done"}
  /\ (pc = "done" /\ exc # None) => stdout = <<json_dumps([error |-> exc])>>
  /\ (pc = "done" /\ exc = None) => stdout = <<json_dumps(result)>> /\ Has(result, "canal")

C7_Witness ==
  /\ pc = "done"
  /\ exc = "TypeError"
  /\ Has(result, "availability")
  /\ stdout = <<json_dumps([error |-> "TypeError"])>>

\* C8: a run without error ends in exactly one of three outcomes: a direct
\* hit iff the classifier succeeds on the canal (the hierarchy is then not
\* consulted and the result has no parent_canal), an indirect hit iff it
\* fails on the canal and find_main_disty returns an ancestor it succeeds on
\* (the result then names that ancestor as parent_canal), a miss otherwise;
\* a classification in a result is the classifier's answer for parent_canal
\* when present and for the canal otherwise.
C8_ThreeOutcomes ==
  Emitted
  => /\ (OutcomeOf(result) = "direct") = Classified(user_canal)
     /\ Classified(user_canal)
          => (main_disty = Unset /\ current = Unset /\ steps = 0
              /\ ~Has(result, "parent_canal"))
     /\ (OutcomeOf(result) = "indirect")
          = (~Classified(user_canal) /\ main_disty # None /\ Classified(main_disty))
     /\ OutcomeOf(result) = "indirect" => result.parent_canal = main_disty
     /\ (OutcomeOf(result) = "miss")
          = (~Classified(user_canal) /\ (main_disty = None \/ ~Classified(main_disty)))
     /\ (Has(result, "priority_group") \/ Has(result, "sub_group"))
          => <<result.priority_group, result.sub_group>>
               = Classification(IF Has(result, "parent_canal")
                                THEN result.parent_canal ELSE result.canal)

C8_Witness ==
  /\ Emitted
  /\ user_canal = "Unknown Minor"
  /\ OutcomeOf(result) = "indirect"
  /\ Has(result, "availability")
  /\ result.parent_canal = "Chamman Disty"
  /\ result.priority_group = "A" /\ result.sub_group = "A1"

\* C9 (as claimed): a miss has two forms.  When find_main_disty returns None
\* the result is exactly the canal and "No Canal found in the Rabi Season.";
\* when it returns a Distributary ancestor without a sub-group the result
\* names the canal, that ancestor as parent_canal and a not-in-plan message,
\* without classification or availability.
C9_TwoMissForms ==
  (pc \in {"print", "done"} /\ exc = None /\ ~Classified(user_canal))
  => /\ main_disty = None
          => result = [canal |-> user_canal, message |-> "No Canal found in the Rabi Season."]
     /\ (main_disty # None /\ ~Classified(main_disty))
          => /\ DOMAIN result = {"canal", "parent_canal", "message"}
             /\ result.canal = user_canal
             /\ result.parent_canal = main_disty
             /\ result.message = "Canal and its parent are not in the rotational plan."

\* C10: when the parent chain of the canal runs into a cycle of two or more
\* records without meeting a Distributary, find_main_disty never returns: it
\* is before or in its loop, and has produced neither a name nor None.
\* (Stated by contraposition: a call that has left its loop or produced a
\* value is on no such chain.)
C10_CycleNeverReturns ==
  (pc \notin {"find_main_disty", "walk"} \/ main_disty # Unset)
  => ~RunsIntoCycle(Parents, Disties, Canal)

C10_Witness ==
  /\ RunsIntoCycle(Parents, Disties, Canal)
  /\ pc = "walk"
  /\ steps = MaxSteps
  /\ current = Canal

====
